---- MODULE Spec2Model ----
(***************************************************************************)
(* Task API (Hono + TypeScript, better-sqlite3).                           *)
(*                                                                         *)
(* The model follows one request at a time through the route's middleware  *)
(* chain (validateParams, validateBody) into the controller and the SQL    *)
(* statements the controller runs against the tasks table.                 *)
(*                                                                         *)
(* Text is a tuple of one-character strings, so that trimming and length   *)
(* checks are computed.  JSON values are tagged records.  Timestamps are   *)
(* readings of the wall clock in whole seconds, the resolution of SQLite's *)
(* datetime('now'); the clock is taken to be non-decreasing.               *)
(***************************************************************************)
EXTENDS Integers, Sequences, FiniteSets, TLC

\* Bounds of the model: the creates a run may hold (under Spec, which sends
\* few bodies to several tasks, and under SpecFields, which sends many bodies
\* to few tasks) and the seconds the clock may advance.
MaxId == 2
MaxTasks == 1
MaxClock == 1
MaxListed == 2
MaxConnections == 2
MaxSignals == 2
MaxInitialize == 2
MaxInFlight == 2

\* Limits of the validation schemas.
MaxTitleLen == 200
MaxDescriptionLen == 1000
MaxLimit == 100

\* Defaults of getAllTasks.
DefaultLimit == 50
DefaultOffset == 0

----------------------------------------------------------------------------
\* JSON values

Undefined == [type |-> "undefined"]
Null == [type |-> "null"]
Str(s) == [type |-> "string", val |-> s]
Bool(b) == [type |-> "boolean", val |-> b]
Num(n) == [type |-> "number", val |-> n]
NaN == [type |-> "NaN"]

Low == <<"l", "o", "w">>
Medium == <<"m", "e", "d", "i", "u", "m">>
High == <<"h", "i", "g", "h">>
Urgent == <<"u", "r", "g", "e", "n", "t">>

Priorities == {Low, Medium, High}

Max(a, b) == IF a >= b THEN a ELSE b

RECURSIVE SetMax(_)
SetMax(S) ==
  IF S = {} THEN 0
  ELSE LET x == CHOOSE y \in S : TRUE IN Max(x, SetMax(S \ {x}))

----------------------------------------------------------------------------
\* String helpers used by the schemas

IsSpace(ch) == ch = " "

RECURSIVE TrimStart(_)
TrimStart(s) ==
  IF s # <<>> /\ IsSpace(Head(s)) THEN TrimStart(Tail(s)) ELSE s

RECURSIVE TrimEnd(_)
TrimEnd(s) ==
  IF s # <<>> /\ IsSpace(s[Len(s)]) THEN TrimEnd(SubSeq(s, 1, Len(s) - 1)) ELSE s

Trim(s) == TrimEnd(TrimStart(s))

Digits == <<"0", "1", "2", "3", "4", "5", "6", "7", "8", "9">>

DigitValue(ch) == (CHOOSE i \in 1..10 : Digits[i] = ch) - 1

IsDigit(ch) == \E i \in 1..10 : Digits[i] = ch

RECURSIVE DecimalValue(_)
DecimalValue(s) ==
  IF s = <<>> THEN 0
  ELSE 10 * DecimalValue(SubSeq(s, 1, Len(s) - 1)) + DigitValue(s[Len(s)])

\* Number(text) as z.coerce.number() applies it to a path parameter.
CoerceNumber(s) ==
  IF s = <<>> THEN Num(0)
  ELSE IF \A i \in 1..Len(s) : IsDigit(s[i]) THEN Num(DecimalValue(s))
  ELSE IF Head(s) = "-" /\ Len(s) > 1 /\ \A i \in 2..Len(s) : IsDigit(s[i])
    THEN Num(0 - DecimalValue(Tail(s)))
  ELSE NaN

\* The decimal text of a one-digit number, as it appears in a path.
NumToText(n) == <<Digits[n + 1]>>

----------------------------------------------------------------------------
\* Zod schemas (safeParse results)

Ok(v) == [success |-> TRUE, data |-> v]
Fail == [success |-> FALSE, data |-> Undefined]

\* z.string().trim().min(lo).max(hi)
ZString(v, lo, hi) ==
  IF v.type = "string" /\ Len(Trim(v.val)) >= lo /\ Len(Trim(v.val)) <= hi
    THEN Ok(Str(Trim(v.val)))
    ELSE Fail

ZBoolean(v) == IF v.type = "boolean" THEN Ok(v) ELSE Fail

\* A priority schema that takes any string.
AnyPriority(v) == IF v.type = "string" THEN Ok(v) ELSE Fail

\* z.enum(['low', 'medium', 'high'])
PrioritySchema(v) ==
  IF v.type = "string" /\ v.val \in Priorities THEN Ok(v) ELSE Fail

ZOptional(v, r) == IF v = Undefined THEN Ok(Undefined) ELSE r

ZNullable(v, r) == IF v = Null THEN Ok(Null) ELSE r

\* A title schema that checks the length before it trims:
\* z.string().min(1).max(200).trim()
TitleSchemaTrimLast(v) ==
  IF v.type = "string" /\ Len(v.val) >= 1 /\ Len(v.val) <= MaxTitleLen
    THEN Ok(Str(Trim(v.val)))
    ELSE Fail

TitleSchema(v) == ZString(v, 1, MaxTitleLen)

DescriptionSchema(v) == ZNullable(v, ZString(v, 0, MaxDescriptionLen))

\* z.object(shape).safeParse: keys outside the shape are stripped.
ZObject(fields) ==
  [success |-> \A k \in DOMAIN fields : fields[k].success,
   data |-> [k \in DOMAIN fields |-> fields[k].data],
   issues |-> {k \in DOMAIN fields : ~fields[k].success}]

createTaskSchema(body) ==
  ZObject([title |-> TitleSchema(body.title),
           description |-> ZOptional(body.description, DescriptionSchema(body.description)),
           priority |-> IF body.priority = Undefined
                          THEN Ok(Str(Medium))
                          ELSE PrioritySchema(body.priority)])

\* updateTaskSchema with description made optional, as in patchTaskSchema.
updateTaskSchemaOptionalDescription(body) ==
  ZObject([title |-> TitleSchema(body.title),
           description |-> ZOptional(body.description, DescriptionSchema(body.description)),
           completed |-> ZBoolean(body.completed),
           priority |-> PrioritySchema(body.priority)])

updateTaskSchema(body) ==
  ZObject([title |-> TitleSchema(body.title),
           description |-> DescriptionSchema(body.description),
           completed |-> ZBoolean(body.completed),
           priority |-> PrioritySchema(body.priority)])

patchTaskSchema(body) ==
  ZObject([title |-> ZOptional(body.title, TitleSchema(body.title)),
           description |-> ZOptional(body.description, DescriptionSchema(body.description)),
           completed |-> ZOptional(body.completed, ZBoolean(body.completed)),
           priority |-> ZOptional(body.priority, PrioritySchema(body.priority))])

idParamSchema(p) ==
  LET n == CoerceNumber(p)
  IN ZObject([id |-> IF n.type = "number" /\ n.val > 0 THEN Ok(n.val) ELSE Fail])

True == <<"t", "r", "u", "e">>
False == <<"f", "a", "l", "s", "e">>

\* z.enum(['true', 'false'])
CompletedFilterSchema(v) ==
  IF v.type = "string" /\ v.val \in {True, False} THEN Ok(v) ELSE Fail

\* z.coerce.number().int().min(lo).max(hi) over the text of a query parameter
ZCoercedInt(v, lo, hi) ==
  IF v.type # "string" THEN Fail
  ELSE LET n == CoerceNumber(v.val)
       IN IF n.type = "number" /\ n.val >= lo /\ n.val <= hi THEN Ok(n) ELSE Fail

\* z.coerce.number().int().min(lo)
ZCoercedIntFrom(v, lo) ==
  IF v.type # "string" THEN Fail
  ELSE LET n == CoerceNumber(v.val)
       IN IF n.type = "number" /\ n.val >= lo THEN Ok(n) ELSE Fail

listQuerySchema(query) ==
  ZObject([completed |-> ZOptional(query.completed, CompletedFilterSchema(query.completed)),
           priority |-> ZOptional(query.priority, PrioritySchema(query.priority)),
           limit |-> ZOptional(query.limit, ZCoercedInt(query.limit, 1, MaxLimit)),
           offset |-> ZOptional(query.offset, ZCoercedIntFrom(query.offset, 0))])

----------------------------------------------------------------------------
\* State

VARIABLES
  tasks,    \* the tasks table: rowid -> row
  seq,      \* sqlite_sequence entry of the table (AUTOINCREMENT high-water mark)
  now,      \* the wall clock, in seconds
  last,     \* the last request handled and the response it got
  created,  \* history: the ids returned by the successful creates, in order
  deleted,  \* history: the ids for which DELETE has answered 204
  returned, \* history: id -> the task as its create returned it, kept until
            \* a PUT, PATCH or DELETE of that id succeeds
  tieOrder, \* the order in which the query plan leaves rows of equal sort key
  proc,     \* the Node process: HTTP server, timers, database handle, exit
  schema,   \* the database's schema: the tasks table, the update trigger, and
            \* history: the calls of initializeDatabase so far
  inflight  \* the requests received and not yet answered, by connection

vars == <<tasks, seq, now, last, created, deleted, returned, tieOrder, proc, schema, inflight>>

AllowedFields == {"title", "description", "completed", "priority"}

----------------------------------------------------------------------------
\* Storage: the statements the controller prepares and runs

\* SELECT * FROM tasks WHERE id = ?   (.get: the row or undefined)
SelectById(t, id) == IF id \in DOMAIN t THEN t[id] ELSE Undefined

\* id INTEGER PRIMARY KEY: one more than the largest rowid in the table.
LargestRowid(t, s) == SetMax(DOMAIN t) + 1

\* id INTEGER PRIMARY KEY AUTOINCREMENT: one more than the largest rowid the
\* table has ever held, which sqlite_sequence remembers across deletes.
NextRowid(t, s) == Max(s, SetMax(DOMAIN t)) + 1

\* The column defaults under a swapped pair of timestamps: updated_at is
\* left at the epoch instead of datetime('now').
DefaultsStale(clock) == [completed |-> 0, created_at |-> clock, updated_at |-> 0]

\* The column defaults with completed DEFAULT 1.
DefaultsCompleted(clock) == [completed |-> 1, created_at |-> clock, updated_at |-> clock]

\* Column defaults of CREATE TABLE tasks; both datetime('now') defaults are
\* evaluated in the one INSERT step and read the same clock value.
ColumnDefaults(clock) == [completed |-> 0, created_at |-> clock, updated_at |-> clock]

\* CHECK(priority IN ('low', 'medium', 'high')); a CHECK passes on NULL.
PriorityCheck(priority) ==
  priority = Null \/ (priority.type = "string" /\ priority.val \in {Low, Medium, High})

\* The statement would leave the row with a priority the CHECK refuses, and
\* throws instead of writing.
ViolatesCheck(row, params) ==
  "priority" \in DOMAIN params /\ ~PriorityCheck(params.priority)

\* INSERT INTO tasks (title, description, priority) VALUES (...)
InsertTask(t, s, title, description, priority, clock) ==
  LET id == NextRowid(t, s)
      d == ColumnDefaults(clock)
      row == [id |-> id, title |-> title, description |-> description,
              completed |-> d.completed, priority |-> priority,
              created_at |-> d.created_at, updated_at |-> d.updated_at]
  IN [tasks |-> [i \in DOMAIN t \cup {id} |-> IF i = id THEN row ELSE t[i]],
      seq |-> Max(s, id),
      lastInsertRowid |-> id]

\* A trigger body that stamps the wrong column.
TriggerStampsCreated(row, clock) == [row EXCEPT !.created_at = clock]

\* A table without the trigger.
NoTrigger(row, clock) == row

\* TRIGGER update_task_timestamp AFTER UPDATE ON tasks:
\*   UPDATE tasks SET updated_at = datetime('now') WHERE id = NEW.id
\* (recursive triggers are off, so the inner UPDATE does not fire it again).
update_task_timestamp(row, clock) == [row EXCEPT !.updated_at = clock]

\* A write that replaces the row: every mutable column the statement does not
\* name falls back to its column default.
ReplaceColumns(row, params) ==
  [f \in DOMAIN row |->
     IF f \in DOMAIN params THEN params[f]
     ELSE IF f = "description" THEN Null
     ELSE IF f = "completed" THEN 0
     ELSE IF f = "priority" THEN Str(Medium)
     ELSE row[f]]

\* The SET clause applied to one row, every named column overwritten.
SetColumns(row, params) ==
  [f \in DOMAIN row |-> IF f \in DOMAIN params THEN params[f] ELSE row[f]]

\* The UPDATE followed by a trigger whose inner UPDATE has no WHERE clause:
\* every row of the table is stamped.
UpdateTaskStampsAll(t, id, params, clock) ==
  IF id \in DOMAIN t
    THEN [i \in DOMAIN t |->
            update_task_timestamp(IF i = id THEN SetColumns(t[i], params) ELSE t[i], clock)]
    ELSE t

\* UPDATE tasks SET <params> WHERE id = @id, followed by the trigger; no
\* row is written when the CHECK fails.
UpdateTask(t, id, params, clock) ==
  IF id \in DOMAIN t /\ ~ViolatesCheck(t[id], params)
    THEN [t EXCEPT ![id] = update_task_timestamp(SetColumns(t[id], params), clock)]
    ELSE t

\* A DELETE whose WHERE clause matches no row.
DeleteNothing(t, id) == t

\* DELETE FROM tasks WHERE id = ?
DeleteById(t, id) == [i \in DOMAIN t \ {id} |-> t[i]]

\* WHERE 1=1 [AND completed = @completed] [AND priority = @priority]
Matches(row, completed, priority) ==
  /\ completed # Undefined => row.completed = (IF completed.val = True THEN 1 ELSE 0)
  /\ priority # Undefined => row.priority = priority

\* ORDER BY created_at DESC: row i comes before row j.
Before(t, i, j, tie) ==
  \/ t[i].created_at > t[j].created_at
  \/ /\ t[i].created_at = t[j].created_at
     /\ IF tie = "rowid ascending" THEN i < j ELSE i > j

RECURSIVE OrderByCreatedAtDesc(_, _, _)
OrderByCreatedAtDesc(t, ids, tie) ==
  IF ids = {} THEN <<>>
  ELSE LET first == CHOOSE i \in ids : \A j \in ids \ {i} : Before(t, i, j, tie)
       IN <<t[first]>> \o OrderByCreatedAtDesc(t, ids \ {first}, tie)

\* LIMIT @limit, the offset dropped.
LimitOnly(rows, limit, offset) ==
  SubSeq(rows, 1, IF limit < Len(rows) THEN limit ELSE Len(rows))

\* LIMIT @limit OFFSET @offset
LimitOffset(rows, limit, offset) ==
  SubSeq(rows, offset + 1, IF offset + limit < Len(rows) THEN offset + limit ELSE Len(rows))

\* SELECT * FROM tasks WHERE ... ORDER BY created_at DESC LIMIT @limit OFFSET @offset
SelectPage(t, completed, priority, limit, offset, tie) ==
  LimitOffset(
    OrderByCreatedAtDesc(t, {i \in DOMAIN t : Matches(t[i], completed, priority)}, tie),
    limit, offset)

\* SELECT COUNT(*) as total FROM tasks, the filters dropped.
CountAll(t, completed, priority) == Cardinality(DOMAIN t)

\* SELECT COUNT(*) as total FROM tasks WHERE ...
CountMatching(t, completed, priority) ==
  Cardinality({i \in DOMAIN t : Matches(t[i], completed, priority)})

----------------------------------------------------------------------------
\* Schema: the statements initializeDatabase runs with db.exec

\* The database file as initializeDatabase finds it and leaves it; threw is
\* set when a statement has thrown.
Database(table, trigger, t, s) ==
  [table |-> table, trigger |-> trigger, tasks |-> t, seq |-> s, threw |-> FALSE]

\* CREATE TABLE tasks (...), which fails on a table that exists.
CreateTable(db) ==
  IF db.table THEN [db EXCEPT !.threw = TRUE]
  ELSE [db EXCEPT !.table = TRUE, !.tasks = <<>>, !.seq = 0]

\* CREATE TABLE IF NOT EXISTS tasks (...)
createTableQuery(db) ==
  IF db.table THEN db
  ELSE [db EXCEPT !.table = TRUE, !.tasks = <<>>, !.seq = 0]

\* CREATE TRIGGER IF NOT EXISTS update_task_timestamp AFTER UPDATE ON tasks ...
createTriggerQuery(db) ==
  IF db.trigger THEN db ELSE [db EXCEPT !.trigger = TRUE]

\* initializeDatabase(): the two db.exec calls in order; the second is not
\* reached when the first throws.
initializeDatabase(db) ==
  LET withTable == createTableQuery(db)
  IN IF withTable.threw THEN withTable ELSE createTriggerQuery(withTable)

----------------------------------------------------------------------------
\* Response bodies

\* createErrorResponse of the validation middleware
createErrorResponse(details) ==
  [error |-> "Validation Error", message |-> "Request validation failed",
   details |-> details, timestamp |-> now]

\* A request body, a query string.
Body(t, d, c, p, e) ==
  [title |-> t, description |-> d, completed |-> c, priority |-> p, extra |-> e]

Query(c, p, l, o) == [completed |-> c, priority |-> p, limit |-> l, offset |-> o]

\* A request body that is not JSON.
NotJson == [text |-> Str(<<"{">>)]

\* A request without a path parameter, without a body, without a query string.
NoParam == <<>>
NoBody == Body(Undefined, Undefined, Undefined, Undefined, Undefined)
NoQuery == Query(Undefined, Undefined, Undefined, Undefined)

\* The keys a request body or a query string carries.
KeysOf(body) == {k \in DOMAIN body : body[k] # Undefined}

\* The exchange just completed: the request as sent (path parameter, query
\* string, body), as the middleware left it in the context (validatedParams.id,
\* validatedQuery, validatedBody), the answer, and the SQL statements the
\* handler ran on the way, in order.
Exchange(method, param, query, sent, id, vq, vb, status, body, statements) ==
  [method |-> method, param |-> param, query |-> query, sent |-> sent,
   rawKeys |-> KeysOf(sent), id |-> id, validatedQuery |-> vq, validatedBody |-> vb,
   status |-> status, body |-> body, statements |-> statements]

\* A request as the server receives it.
Request(method, param, query, sent) ==
  [method |-> method, param |-> param, query |-> query, sent |-> sent]

\* The connections on which such a request waits for its handler: for its
\* body to be read (await c.req.json()) or, without a body, for its turn in
\* the event loop.
Waiting(request) ==
  {c \in DOMAIN inflight : inflight[c].phase # "answered" /\ inflight[c].request = request}

\* The response goes out on the connection its request came in on; the
\* connection keeps it until the client has read it.  History: the connections
\* that were waiting when the handler ran.  A request handled as it arrives
\* waits on no connection.
Answer(request, status, body) ==
  IF Waiting(request) = {} THEN inflight
  ELSE LET c == CHOOSE d \in Waiting(request) : TRUE
       IN [inflight EXCEPT ![c] =
             [request |-> request, phase |-> "answered", status |-> status, body |-> body,
              waiting |-> {d \in DOMAIN inflight \ {c} : inflight[d].phase # "answered"}]]

Respond(method, param, id, sent, vb, status, body, statements) ==
  /\ last' = Exchange(method, param, NoQuery, sent, id, Undefined, vb,
                      status, body, statements)
  /\ inflight' = Answer(Request(method, param, NoQuery, sent), status, body)
  /\ UNCHANGED <<tieOrder, proc, schema>>

\* createErrorResponse of the error handler
createHandlerErrorResponse(error, message) ==
  [error |-> error, message |-> message, timestamp |-> now]

\* Error messages are tuples of words and error codes tuples of the parts
\* between underscores, so that includes and startsWith are computed.
Includes(message, word) == \E i \in 1..Len(message) : message[i] = word

StartsWith(code, part) == code # <<>> /\ Head(code) = part

\* What c.req.json() throws on a body that is not JSON: JSON.parse's
\* SyntaxError, which has neither a status nor a body property.
JsonSyntaxError ==
  [name |-> "SyntaxError", message |-> <<"Unexpected", "token", "in", "JSON">>,
   isHttpError |-> FALSE]

\* What a statement throws when a constraint of the table refuses the write.
SqliteConstraintError ==
  [name |-> "SqliteError", message |-> <<"CHECK", "constraint", "failed:", "priority">>,
   isHttpError |-> FALSE, code |-> <<"SQLITE", "CONSTRAINT", "CHECK">>]

\* What db.exec throws when CREATE TABLE names a table that exists.
SqliteTableExists ==
  [name |-> "SqliteError", message |-> <<"table", "tasks", "already", "exists">>,
   isHttpError |-> FALSE, code |-> <<"SQLITE", "ERROR">>]

\* What a statement throws when the database file is locked by another
\* connection, and when the disk fails.
SqliteBusy ==
  [name |-> "SqliteError", message |-> <<"database", "is", "locked">>,
   isHttpError |-> FALSE, code |-> <<"SQLITE", "BUSY">>]

SqliteIoError ==
  [name |-> "SqliteError", message |-> <<"disk", "I/O", "error">>,
   isHttpError |-> FALSE, code |-> <<"SQLITE", "IOERR", "WRITE">>]

\* The faults of the storage layer a statement of a controller may throw.
StorageFaults == {SqliteConstraintError, SqliteBusy, SqliteIoError}

\* An error handler that sends the error's own message in every environment.
errorHandlerVerbose(err) ==
  [status |-> 500,
   body |-> [error |-> IF "code" \in DOMAIN err /\ StartsWith(err.code, "SQLITE")
                         THEN "Database Error" ELSE "Internal Server Error",
             message |-> err.message, timestamp |-> now]]

\* errorHandler (app.onError): status and body by the kind of error and by
\* process.env.NODE_ENV.
errorHandler(err) ==
  IF err.isHttpError
    THEN [status |-> err.statusCode,
          body |-> createHandlerErrorResponse(err.name, err.message)]
  ELSE IF Includes(err.message, "SQLITE")
          \/ ("code" \in DOMAIN err /\ StartsWith(err.code, "SQLITE"))
    THEN [status |-> 500,
          body |-> createHandlerErrorResponse(
                     "Database Error",
                     IF proc.env = "development" THEN err.message
                     ELSE <<"An internal database error occurred">>)]
  ELSE IF err.name = "SyntaxError" /\ "status" \in DOMAIN err /\ err.status = 400
          /\ "body" \in DOMAIN err
    THEN [status |-> 400,
          body |-> createHandlerErrorResponse("Bad Request",
                                              <<"Invalid JSON in request body">>)]
  ELSE [status |-> 500,
        body |-> createHandlerErrorResponse(
                   "Internal Server Error",
                   IF proc.env = "development" THEN err.message
                   ELSE <<"An unexpected error occurred">>)]

\* errorHandler (Express), the last middleware of the v1 application.
ExpressErrorHandler(err) ==
  IF "array" \in DOMAIN err
    THEN [status |-> 400,
          body |-> [error |-> "Validation Error", details |-> err.array, timestamp |-> now]]
  ELSE IF err.isHttpError
    THEN [status |-> err.statusCode,
          body |-> [error |-> err.name, message |-> err.message, timestamp |-> now]]
  ELSE IF "code" \in DOMAIN err /\ StartsWith(err.code, "SQLITE")
    THEN [status |-> 500,
          body |-> [error |-> "Database Error",
                    message |-> IF proc.env = "development" THEN err.message
                                ELSE <<"An internal database error occurred">>,
                    timestamp |-> now]]
  ELSE IF err.name = "SyntaxError" /\ "status" \in DOMAIN err /\ err.status = 400
          /\ "body" \in DOMAIN err
    THEN [status |-> 400,
          body |-> [error |-> "Bad Request", message |-> <<"Invalid JSON in request body">>,
                    timestamp |-> now]]
  ELSE [status |-> IF "statusCode" \in DOMAIN err THEN err.statusCode ELSE 500,
        body |-> [error |-> "Internal Server Error",
                  message |-> IF proc.env = "development" THEN err.message
                              ELSE <<"An unexpected error occurred">>,
                  timestamp |-> now]]

\* A controller whose statement throws: app.onError answers.
StatementFailed == errorHandler(SqliteConstraintError)

\* validateBody when c.req.json() throws: nothing catches the error before
\* app.onError.
BodyNotJson == errorHandler(JsonSyntaxError)

\* The not-found answer of the controllers.
TaskNotFound(id) ==
  [data |-> [error |-> "Not Found", message |-> <<"Task with id ", id, " not found">>]]

\* The empty-update answer of patchTask.
NoValidFields ==
  [data |-> [error |-> "Bad Request", message |-> <<"No valid fields to update">>]]

\* validateParams / validateBody / validateQuery: the details of a 400 answer
ParamDetails(r) == {[field |-> k] : k \in r.issues}
BodyDetails(r, body) == {[field |-> k, value |-> body[k]] : k \in r.issues}
QueryDetails(r, query) == {[field |-> k, value |-> query[k]] : k \in r.issues}

----------------------------------------------------------------------------
\* Requests the model sends

\* Path parameters: the ids up to n, and a text that is no number.
IdParamsUpTo(n) == {NumToText(i) : i \in 1..n}
NotANumber == <<"x">>

IdParams == IdParamsUpTo(Max(MaxListed, Max(MaxId, MaxTasks))) \cup {NotANumber}

TitleA == Str(<<"a">>)
TitleB == Str(<<" ", "b">>)
Blank == Str(<<" ">>)
DescD == Str(<<"d", " ">>)
U == Undefined

\* The bodies sent under Spec.
FewCreateBodies ==
  { Body(TitleA, U, U, U, U),
    Body(Blank, U, U, U, U) }

FewUpdateBodies ==
  { Body(TitleB, Null, Bool(TRUE), Str(High), U),
    Body(U, DescD, Bool(TRUE), Str(High), U) }

FewPatchBodies ==
  { Body(U, U, U, U, U),
    Body(U, U, Bool(TRUE), U, U),
    Body(Blank, U, U, U, U) }

\* The PATCH bodies sent under SpecPatch: without keys, with an unknown key
\* only, with one field, with a title that fails validation.
OrderPatchBodies ==
  FewPatchBodies \cup { Body(U, U, U, U, Num(1)) }

\* The bodies sent under SpecFields.
CreateBodies ==
  { Body(TitleA, U, U, U, U),
    Body(TitleB, Null, Bool(TRUE), Str(High), Num(1)),
    Body(TitleA, DescD, U, U, U),
    Body(Blank, U, U, U, U) }

UpdateBodies ==
  { Body(TitleA, DescD, Bool(TRUE), Str(High), U),
    Body(TitleB, Null, Bool(FALSE), Str(Medium), Num(1)),
    Body(U, DescD, Bool(TRUE), Str(High), U) }

PatchBodies ==
  { Body(U, U, U, U, U),
    Body(U, U, U, U, Num(1)),
    Body(TitleB, U, U, U, U),
    Body(U, Null, U, U, U),
    Body(U, U, Bool(TRUE), U, U),
    Body(U, U, U, Str(High), U),
    Body(TitleA, DescD, Bool(FALSE), Str(Medium), Num(1)),
    Body(Blank, U, U, U, U) }

\* The bodies sent under SpecValidation: one that passes for each method,
\* the others each with one thing wrong.
InvalidCreateBodies ==
  { Body(TitleA, U, U, Str(Low), U),
    Body(U, DescD, U, U, U),
    Body(TitleA, U, U, Str(Urgent), U) }

InvalidUpdateBodies ==
  { Body(TitleB, Null, Bool(TRUE), Str(High), U),
    Body(U, DescD, Bool(TRUE), Str(High), U),
    Body(TitleA, U, Bool(TRUE), Str(High), U),
    Body(TitleA, DescD, U, Str(High), U),
    Body(TitleA, DescD, Bool(TRUE), U, U),
    Body(TitleA, DescD, Bool(TRUE), Str(Urgent), U) }

InvalidPatchBodies ==
  { Body(U, U, U, Str(High), U),
    Body(U, U, U, Str(Urgent), U),
    Body(U, U, Num(1), U, U) }

\* Query strings that fail validation, and one that passes.
InvalidQueries ==
  { Query(U, U, Str(<<"1">>), U),
    Query(Str(<<"y">>), U, U, U),
    Query(U, Str(Urgent), U, U),
    Query(U, U, Str(<<"0">>), U),
    Query(U, U, U, Str(<<"-", "1">>)) }

\* The query strings sent under SpecList: each filter absent or given, and
\* either no paging parameters or pages of one row, the first or the second.
PageSize == Str(<<"1">>)

ListQueries ==
  { Query(c, p, lo[1], lo[2]) :
      c \in {U, Str(True), Str(False)}, p \in {U, Str(High)},
      lo \in {<<U, U>>, <<PageSize, U>>, <<PageSize, Str(<<"1">>)>>} }

\* The bodies sent under SpecList.
ListCreateBodies ==
  { Body(TitleA, U, U, U, U),
    Body(TitleA, U, U, Str(High), U) }

ListPatchBodies == { Body(U, U, Bool(TRUE), U, U) }

\* The bodies sent under SpecTitles: titles at the bounds of the schema, of
\* 200 and 201 characters, of 200 characters between two spaces, of one
\* character, of spaces only and of no character.
Repeat(ch, n) == [i \in 1..n |-> ch]

Padded(s) == <<" ">> \o s \o <<" ">>

BoundaryTitles ==
  { Repeat("a", MaxTitleLen),
    Repeat("a", MaxTitleLen + 1),
    Padded(Repeat("a", MaxTitleLen)),
    Padded(Repeat("a", MaxTitleLen + 1)),
    <<"a">>,
    <<" ", " ">>,
    <<>> }

BoundaryCreateBodies == {Body(Str(title), U, U, U, U) : title \in BoundaryTitles}

\* The requests sent under SpecConcurrent: a create, and a PUT, a PATCH and
\* a DELETE of the task it creates.
ConcurrentRequests ==
  { Request("POST", NoParam, NoQuery, Body(TitleA, U, U, U, U)),
    Request("PUT", NumToText(1), NoQuery, Body(TitleB, Null, Bool(TRUE), Str(High), U)),
    Request("PATCH", NumToText(1), NoQuery, Body(U, U, Bool(TRUE), U, U)),
    Request("DELETE", NumToText(1), NoQuery, NoBody) }

\* The bodies sent under SpecMalformed: one that passes for each method, and
\* one that is not JSON.
MalformedCreateBodies == { Body(TitleA, U, U, U, U), NotJson }
MalformedUpdateBodies == { Body(TitleB, Null, Bool(TRUE), Str(High), U), NotJson }
MalformedPatchBodies == { Body(U, U, Bool(TRUE), U, U), NotJson }

\* safeParse of every request the model sends, computed once.
ParsedParams == [p \in IdParams |-> idParamSchema(p)]
ParsedCreate ==
  [body \in CreateBodies \cup FewCreateBodies \cup InvalidCreateBodies
            \cup ListCreateBodies \cup BoundaryCreateBodies |->
     createTaskSchema(body)]
ParsedUpdate ==
  [body \in UpdateBodies \cup FewUpdateBodies \cup InvalidUpdateBodies |->
     updateTaskSchema(body)]
ParsedPatch ==
  [body \in PatchBodies \cup FewPatchBodies \cup InvalidPatchBodies
            \cup ListPatchBodies |->
     patchTaskSchema(body)]
ParsedQuery == [query \in ListQueries \cup InvalidQueries |-> listQuerySchema(query)]

----------------------------------------------------------------------------
\* Controllers behind their validation middleware

\* updateTask: the parameters bound to the UPDATE, with description left out
\* of the SET clause.
FullUpdateParamsNoDescription(input) ==
  [title |-> input.title,
   completed |-> IF input.completed.val THEN 1 ELSE 0,
   priority |-> input.priority]

\* updateTask: the parameters bound to the UPDATE statement
\*   description: description ?? null,  completed: completed ? 1 : 0
FullUpdateParams(input) ==
  [title |-> input.title,
   description |-> IF input.description \in {Undefined, Null} THEN Null ELSE input.description,
   completed |-> IF input.completed.val THEN 1 ELSE 0,
   priority |-> input.priority]

\* patchTask's filter without the test for undefined.
FieldsInUpdates(updates) == {key \in AllowedFields : key \in DOMAIN updates}

\* patchTask: allowedFields.filter(key => key in updates && updates[key] !== undefined)
FieldsToUpdate(updates) ==
  {key \in AllowedFields : key \in DOMAIN updates /\ updates[key] # Undefined}

\* patchTask: the parameters bound to the dynamic UPDATE statement
PatchParams(updates, fieldsToUpdate) ==
  [field \in fieldsToUpdate |->
     IF field = "completed"
       THEN (IF updates[field] # Undefined /\ updates[field].val THEN 1 ELSE 0)
       ELSE updates[field]]

\* notFoundHandler: the answer to a request no route matches
RouteNotFound ==
  [error |-> "Not Found", message |-> <<"Route not found">>, timestamp |-> now]

NoRequest ==
  Exchange("NONE", NoParam, NoQuery, NoBody, 0, Undefined, Undefined, 0, Null, <<>>)

\* The process once the entry module has run: serve() has asked the server
\* to listen (it has no handle yet), no signal has been handled, no timer is set,
\* the database handle is open, process.exit has not been called.  NODE_ENV
\* is production, as the image sets it.
Started ==
  [server |-> "starting", connections |-> 0, closeListeners |-> <<>>,
   timers |-> 0, signals |-> <<>>, serverClosed |-> FALSE,
   closeDatabaseCalls |-> 0, databaseClosed |-> FALSE, exitCode |-> -1,
   env |-> "production"]

\* The values of NODE_ENV: set by the image, by the test configuration, by
\* the developer, or not set.
Environments == {"production", "test", "development", "unset"}

\* The schema once the entry module has run: initializeDatabase() is called,
\* once, before serve().
Initialized == [table |-> TRUE, trigger |-> TRUE, calls |-> 1]

\* Rows of equal created_at come out in the order of the table scan, which
\* SQL leaves to the query plan: by rowid upwards or downwards.
TieOrders == {"rowid ascending", "rowid descending"}

\* An empty table, no request handled yet.
InitStore ==
  /\ tasks = <<>>
  /\ seq = 0
  /\ now = 0
  /\ last = NoRequest
  /\ created = <<>>
  /\ deleted = {}
  /\ returned = <<>>
  /\ proc = Started
  /\ schema = Initialized
  /\ inflight = <<>>

Init ==
  /\ InitStore
  /\ tieOrder = "rowid ascending"

\* The same, under either query plan.
InitList ==
  /\ InitStore
  /\ tieOrder \in TieOrders

\* The database file as the module load finds it, before initializeDatabase
\* has run: new, or left by an earlier version with the table and without the
\* trigger, or left by an earlier run with both.
Schemas ==
  { [table |-> FALSE, trigger |-> FALSE, calls |-> 0],
    [table |-> TRUE, trigger |-> FALSE, calls |-> 0],
    [table |-> TRUE, trigger |-> TRUE, calls |-> 0] }

\* The same, under every NODE_ENV.
InitFaults ==
  /\ tasks = <<>>
  /\ seq = 0
  /\ now = 0
  /\ last = NoRequest
  /\ created = <<>>
  /\ deleted = {}
  /\ returned = <<>>
  /\ proc \in {[Started EXCEPT !.env = env] : env \in Environments}
  /\ schema = Initialized
  /\ inflight = <<>>
  /\ tieOrder = "rowid ascending"

InitDatabase ==
  /\ tasks = <<>>
  /\ seq = 0
  /\ now = 0
  /\ last = NoRequest
  /\ created = <<>>
  /\ deleted = {}
  /\ returned = <<>>
  /\ proc = Started
  /\ schema \in Schemas
  /\ inflight = <<>>
  /\ tieOrder = "rowid ascending"

\* GET /tasks/:id with a null description sent as the empty string.
GetTaskByIdEmptyDescription(p) ==
  LET vp == ParsedParams[p]
      id == IF vp.success THEN vp.data.id ELSE 0
      task == SelectById(tasks, id)
  IN
  /\ IF ~vp.success
       THEN Respond("GET", p, 0, NoBody, Undefined, 400,
                    createErrorResponse(ParamDetails(vp)), <<>>)
     ELSE IF task = Undefined
       THEN Respond("GET", p, id, NoBody, Undefined, 404, TaskNotFound(id), <<"SELECT">>)
       ELSE Respond("GET", p, id, NoBody, Undefined, 200,
                    [data |-> [task EXCEPT !.description = IF @ = Null THEN Str(<<>>) ELSE @]],
                    <<"SELECT">>)
  /\ UNCHANGED <<tasks, seq, now, created, deleted, returned>>

\* GET /tasks/:id  -  validateParams(idParamSchema), getTaskById
GetTaskById(p) ==
  LET vp == ParsedParams[p] IN
  /\ IF ~vp.success
       THEN Respond("GET", p, 0, NoBody, Undefined, 400, createErrorResponse(ParamDetails(vp)), <<>>)
       ELSE LET id == vp.data.id
                task == SelectById(tasks, id)
            IN IF task = Undefined
                 THEN Respond("GET", p, id, NoBody, Undefined, 404, TaskNotFound(id), <<"SELECT">>)
                 ELSE Respond("GET", p, id, NoBody, Undefined, 200, [data |-> task], <<"SELECT">>)
  /\ UNCHANGED <<tasks, seq, now, created, deleted, returned>>

\* POST /tasks  -  validateBody(createTaskSchema), createTask
CreateTask(body, cap) ==
  LET vb == ParsedCreate[body] IN
  IF body = NotJson
    THEN /\ Respond("POST", NoParam, 0, body, Undefined, BodyNotJson.status,
                    BodyNotJson.body, <<>>)
         /\ UNCHANGED <<tasks, seq, now, created, deleted, returned>>
  ELSE IF ~vb.success
    THEN /\ Respond("POST", NoParam, 0, body, Undefined, 400,
                    createErrorResponse(BodyDetails(vb, body)), <<>>)
         /\ UNCHANGED <<tasks, seq, now, created, deleted, returned>>
    ELSE LET input == vb.data
             title == input.title
             description == IF input.description = Undefined THEN Null ELSE input.description
             priority == IF input.priority = Undefined THEN Str(Medium) ELSE input.priority
             result == InsertTask(tasks, seq, title, description, priority, now)
             newTask == SelectById(result.tasks, result.lastInsertRowid)
         IN IF ViolatesCheck(<<>>, [priority |-> priority])
              THEN /\ Respond("POST", NoParam, 0, body, input, StatementFailed.status,
                              StatementFailed.body, <<"INSERT">>)
                   /\ UNCHANGED <<tasks, seq, now, created, deleted, returned>>
              ELSE /\ seq < cap
                   /\ tasks' = result.tasks
                   /\ seq' = result.seq
                   /\ created' = Append(created, newTask.id)
                   /\ returned' = [i \in DOMAIN returned \cup {newTask.id} |->
                                     IF i = newTask.id THEN newTask ELSE returned[i]]
                   /\ Respond("POST", NoParam, 0, body, input, 201,
                              [message |-> "Task created successfully", data |-> newTask],
                              <<"INSERT", "SELECT">>)
                   /\ UNCHANGED <<now, deleted>>

\* PUT /tasks/:id with the task looked up before the body is validated.
UpdateTaskLookupFirst(p, body) ==
  LET vp == ParsedParams[p]
      vb == ParsedUpdate[body]
      id == IF vp.success THEN vp.data.id ELSE 0
      existingTask == SelectById(tasks, id)
      written == UpdateTask(tasks, id, FullUpdateParams(vb.data), now)
  IN
  IF vp.success /\ existingTask # Undefined /\ vb.success
    THEN /\ tasks' = written
         /\ returned' = [i \in DOMAIN returned \ {id} |-> returned[i]]
         /\ Respond("PUT", p, id, body, vb.data, 200,
                    [message |-> "Task updated successfully", data |-> SelectById(written, id)],
                    <<"SELECT", "UPDATE", "SELECT">>)
         /\ UNCHANGED <<seq, now, created, deleted>>
    ELSE /\ IF ~vp.success
              THEN Respond("PUT", p, 0, body, Undefined, 400,
                           createErrorResponse(ParamDetails(vp)), <<>>)
            ELSE IF existingTask = Undefined
              THEN Respond("PUT", p, id, body, Undefined, 404, TaskNotFound(id), <<"SELECT">>)
              ELSE Respond("PUT", p, id, body, Undefined, 400,
                           createErrorResponse(BodyDetails(vb, body)), <<"SELECT">>)
         /\ UNCHANGED <<tasks, seq, now, created, deleted, returned>>

\* PUT /tasks/:id with a suspension point in the controller, between the
\* existence check and the UPDATE (an asynchronous storage driver): the first
\* run ends after the check, the second writes and reads back.
UpdateTaskSuspended(p, body) ==
  LET vp == ParsedParams[p]
      vb == ParsedUpdate[body]
      id == IF vp.success THEN vp.data.id ELSE 0
      c == CHOOSE d \in Waiting(Request("PUT", p, NoQuery, body)) : TRUE
      written == UpdateTask(tasks, id, FullUpdateParams(vb.data), now)
  IN
  IF ~vp.success \/ ~vb.success
    THEN /\ Respond("PUT", p, id, body, Undefined, 400,
                    createErrorResponse(IF vp.success THEN BodyDetails(vb, body)
                                        ELSE ParamDetails(vp)), <<>>)
         /\ UNCHANGED <<tasks, seq, now, created, deleted, returned>>
  ELSE IF inflight[c].phase = "received" /\ SelectById(tasks, id) = Undefined
    THEN /\ Respond("PUT", p, id, body, vb.data, 404, TaskNotFound(id), <<"SELECT">>)
         /\ UNCHANGED <<tasks, seq, now, created, deleted, returned>>
  ELSE IF inflight[c].phase = "received"
    THEN /\ inflight' = [inflight EXCEPT ![c].phase = "checked"]
         /\ UNCHANGED <<tasks, seq, now, last, created, deleted, returned, tieOrder, proc,
                        schema>>
    ELSE /\ tasks' = written
         /\ returned' = [i \in DOMAIN returned \ {id} |-> returned[i]]
         /\ Respond("PUT", p, id, body, vb.data, 200,
                    [message |-> "Task updated successfully", data |-> SelectById(written, id)],
                    <<"UPDATE", "SELECT">>)
         /\ UNCHANGED <<seq, now, created, deleted>>

\* PUT /tasks/:id  -  validateParams(idParamSchema), validateBody(updateTaskSchema), updateTask
UpdateTaskById(p, body) ==
  LET vp == ParsedParams[p]
      vb == ParsedUpdate[body]
  IN
  IF ~vp.success
    THEN /\ Respond("PUT", p, 0, body, Undefined, 400,
                    createErrorResponse(ParamDetails(vp)), <<>>)
         /\ UNCHANGED <<tasks, seq, now, created, deleted, returned>>
  ELSE IF body = NotJson
    THEN /\ Respond("PUT", p, vp.data.id, body, Undefined, BodyNotJson.status,
                    BodyNotJson.body, <<>>)
         /\ UNCHANGED <<tasks, seq, now, created, deleted, returned>>
  ELSE IF ~vb.success
    THEN /\ Respond("PUT", p, vp.data.id, body, Undefined, 400,
                    createErrorResponse(BodyDetails(vb, body)), <<>>)
         /\ UNCHANGED <<tasks, seq, now, created, deleted, returned>>
  ELSE LET id == vp.data.id
           input == vb.data
           existingTask == SelectById(tasks, id)
       IN IF existingTask = Undefined
            THEN /\ Respond("PUT", p, id, body, input, 404, TaskNotFound(id), <<"SELECT">>)
                 /\ UNCHANGED <<tasks, seq, now, created, deleted, returned>>
          ELSE IF ViolatesCheck(existingTask, FullUpdateParams(input))
            THEN /\ Respond("PUT", p, id, body, input, StatementFailed.status,
                            StatementFailed.body, <<"SELECT", "UPDATE">>)
                 /\ UNCHANGED <<tasks, seq, now, created, deleted, returned>>
            ELSE LET params == FullUpdateParams(input)
                     written == UpdateTask(tasks, id, params, now)
                     updatedTask == SelectById(written, id)
                 IN /\ tasks' = written
                    /\ returned' = [i \in DOMAIN returned \ {id} |-> returned[i]]
                    /\ Respond("PUT", p, id, body, input, 200,
                               [message |-> "Task updated successfully", data |-> updatedTask],
                               <<"SELECT", "UPDATE", "SELECT">>)
                    /\ UNCHANGED <<seq, now, created, deleted>>

\* PATCH /tasks/:id with the empty-update guard ahead of the existence check.
PatchTaskGuardFirst(p, body) ==
  LET vp == ParsedParams[p]
      vb == ParsedPatch[body]
      id == IF vp.success THEN vp.data.id ELSE 0
      updates == vb.data
      fieldsToUpdate == FieldsToUpdate(updates)
      written == UpdateTask(tasks, id, PatchParams(updates, fieldsToUpdate), now)
  IN
  IF vp.success /\ vb.success /\ fieldsToUpdate # {} /\ SelectById(tasks, id) # Undefined
    THEN /\ tasks' = written
         /\ returned' = [i \in DOMAIN returned \ {id} |-> returned[i]]
         /\ Respond("PATCH", p, id, body, updates, 200,
                    [message |-> "Task updated successfully", data |-> SelectById(written, id)],
                    <<"SELECT", "UPDATE", "SELECT">>)
         /\ UNCHANGED <<seq, now, created, deleted>>
    ELSE /\ IF ~vp.success
              THEN Respond("PATCH", p, 0, body, Undefined, 400,
                           createErrorResponse(ParamDetails(vp)), <<>>)
            ELSE IF ~vb.success
              THEN Respond("PATCH", p, id, body, Undefined, 400,
                           createErrorResponse(BodyDetails(vb, body)), <<>>)
            ELSE IF fieldsToUpdate = {}
              THEN Respond("PATCH", p, id, body, updates, 400, NoValidFields, <<>>)
              ELSE Respond("PATCH", p, id, body, updates, 404, TaskNotFound(id), <<"SELECT">>)
         /\ UNCHANGED <<tasks, seq, now, created, deleted, returned>>

\* PATCH /tasks/:id that runs its UPDATE, with an empty SET list, before the
\* empty-update guard answers 400: the trigger stamps the row.
PatchTaskWritesFirst(p, body) ==
  LET vp == ParsedParams[p]
      vb == ParsedPatch[body]
      id == IF vp.success THEN vp.data.id ELSE 0
      updates == vb.data
      fieldsToUpdate == FieldsToUpdate(updates)
      written == UpdateTask(tasks, id, PatchParams(updates, fieldsToUpdate), now)
  IN
  IF vp.success /\ vb.success /\ SelectById(tasks, id) # Undefined
    THEN /\ tasks' = written
         /\ returned' = [i \in DOMAIN returned \ {id} |-> returned[i]]
         /\ IF fieldsToUpdate = {}
              THEN Respond("PATCH", p, id, body, updates, 400, NoValidFields,
                           <<"SELECT", "UPDATE">>)
              ELSE Respond("PATCH", p, id, body, updates, 200,
                           [message |-> "Task updated successfully",
                            data |-> SelectById(written, id)],
                           <<"SELECT", "UPDATE", "SELECT">>)
         /\ UNCHANGED <<seq, now, created, deleted>>
    ELSE /\ IF ~vp.success
              THEN Respond("PATCH", p, 0, body, Undefined, 400,
                           createErrorResponse(ParamDetails(vp)), <<>>)
            ELSE IF ~vb.success
              THEN Respond("PATCH", p, id, body, Undefined, 400,
                           createErrorResponse(BodyDetails(vb, body)), <<>>)
              ELSE Respond("PATCH", p, id, body, updates, 404, TaskNotFound(id), <<"SELECT">>)
         /\ UNCHANGED <<tasks, seq, now, created, deleted, returned>>

\* PATCH /tasks/:id  -  validateParams(idParamSchema), validateBody(patchTaskSchema), patchTask
PatchTaskById(p, body) ==
  LET vp == ParsedParams[p]
      vb == ParsedPatch[body]
  IN
  IF ~vp.success
    THEN /\ Respond("PATCH", p, 0, body, Undefined, 400,
                    createErrorResponse(ParamDetails(vp)), <<>>)
         /\ UNCHANGED <<tasks, seq, now, created, deleted, returned>>
  ELSE IF body = NotJson
    THEN /\ Respond("PATCH", p, vp.data.id, body, Undefined, BodyNotJson.status,
                    BodyNotJson.body, <<>>)
         /\ UNCHANGED <<tasks, seq, now, created, deleted, returned>>
  ELSE IF ~vb.success
    THEN /\ Respond("PATCH", p, vp.data.id, body, Undefined, 400,
                    createErrorResponse(BodyDetails(vb, body)), <<>>)
         /\ UNCHANGED <<tasks, seq, now, created, deleted, returned>>
  ELSE LET id == vp.data.id
           updates == vb.data
           existingTask == SelectById(tasks, id)
           fieldsToUpdate == FieldsToUpdate(updates)
       IN IF existingTask = Undefined
            THEN /\ Respond("PATCH", p, id, body, updates, 404, TaskNotFound(id), <<"SELECT">>)
                 /\ UNCHANGED <<tasks, seq, now, created, deleted, returned>>
          ELSE IF fieldsToUpdate = {}
            THEN /\ Respond("PATCH", p, id, body, updates, 400, NoValidFields, <<"SELECT">>)
                 /\ UNCHANGED <<tasks, seq, now, created, deleted, returned>>
          ELSE IF ViolatesCheck(existingTask, PatchParams(updates, fieldsToUpdate))
            THEN /\ Respond("PATCH", p, id, body, updates, StatementFailed.status,
                            StatementFailed.body, <<"SELECT", "UPDATE">>)
                 /\ UNCHANGED <<tasks, seq, now, created, deleted, returned>>
          ELSE LET params == PatchParams(updates, fieldsToUpdate)
                   written == UpdateTask(tasks, id, params, now)
                   updatedTask == SelectById(written, id)
               IN /\ tasks' = written
                  /\ returned' = [i \in DOMAIN returned \ {id} |-> returned[i]]
                  /\ Respond("PATCH", p, id, body, updates, 200,
                             [message |-> "Task updated successfully", data |-> updatedTask],
                             <<"SELECT", "UPDATE", "SELECT">>)
                  /\ UNCHANGED <<seq, now, created, deleted>>

\* getAllTasks with hasMore taken from a full page: tasks.length === limit
ListResponseFullPage(t, query, tie) ==
  LET completed == query.completed
      priority == query.priority
      limit == IF query.limit = Undefined THEN DefaultLimit ELSE query.limit.val
      offset == IF query.offset = Undefined THEN DefaultOffset ELSE query.offset.val
      rows == SelectPage(t, completed, priority, limit, offset, tie)
      total == CountMatching(t, completed, priority)
  IN [data |-> rows,
      pagination |-> [total |-> total, limit |-> limit, offset |-> offset,
                      hasMore |-> Len(rows) = limit]]

\* getAllTasks: the page and its pagination metadata
ListResponse(t, query, tie) ==
  LET completed == query.completed
      priority == query.priority
      limit == IF query.limit = Undefined THEN DefaultLimit ELSE query.limit.val
      offset == IF query.offset = Undefined THEN DefaultOffset ELSE query.offset.val
      rows == SelectPage(t, completed, priority, limit, offset, tie)
      total == CountMatching(t, completed, priority)
  IN [data |-> rows,
      pagination |-> [total |-> total, limit |-> limit, offset |-> offset,
                      hasMore |-> offset + Len(rows) < total]]

\* GET /tasks  -  validateQuery(listQuerySchema), getAllTasks
GetAllTasks(query) ==
  LET vq == ParsedQuery[query] IN
  /\ IF ~vq.success
       THEN last' = Exchange("GET", NoParam, query, NoBody, 0, Undefined, Undefined, 400,
                             createErrorResponse(QueryDetails(vq, query)), <<>>)
       ELSE last' = Exchange("GET", NoParam, query, NoBody, 0, vq.data, Undefined, 200,
                             ListResponse(tasks, vq.data, tieOrder),
                             <<"SELECT", "SELECT COUNT">>)
  /\ inflight' = Answer(Request("GET", NoParam, query, NoBody), last'.status, last'.body)
  /\ UNCHANGED <<tasks, seq, now, created, deleted, returned, tieOrder, proc, schema>>

\* DELETE /tasks/:id  -  validateParams(idParamSchema), deleteTask
DeleteTaskById(p) ==
  LET vp == ParsedParams[p] IN
  IF ~vp.success
    THEN /\ Respond("DELETE", p, 0, NoBody, Undefined, 400, createErrorResponse(ParamDetails(vp)), <<>>)
         /\ UNCHANGED <<tasks, seq, now, created, deleted, returned>>
    ELSE LET id == vp.data.id
             existingTask == SelectById(tasks, id)
         IN IF existingTask = Undefined
              THEN /\ Respond("DELETE", p, id, NoBody, Undefined, 404, TaskNotFound(id), <<"SELECT">>)
                   /\ UNCHANGED <<tasks, seq, now, created, deleted, returned>>
              ELSE /\ tasks' = DeleteById(tasks, id)
                   /\ deleted' = deleted \cup {id}
                   /\ returned' = [i \in DOMAIN returned \ {id} |-> returned[i]]
                   /\ Respond("DELETE", p, id, NoBody, Undefined, 204, Null, <<"SELECT", "DELETE">>)
                   /\ UNCHANGED <<seq, now, created>>

\* Any method and path outside the routes  -  app.notFound(notFoundHandler)
UnmatchedRoute ==
  /\ Respond("OTHER", NoParam, 0, NoBody, Undefined, 404, RouteNotFound, <<>>)
  /\ UNCHANGED <<tasks, seq, now, created, deleted, returned>>

\* A second of wall-clock time passes between two requests.
Tick ==
  /\ now < MaxClock
  /\ now' = now + 1
  /\ UNCHANGED <<tasks, seq, last, created, deleted, returned, tieOrder, proc, schema,
                 inflight>>

----------------------------------------------------------------------------
\* The Express (v1) controllers, behind their validation middleware: what each
\* answers and the table it leaves, from the table it finds and the validated
\* input.

Outcome(status, body, t, s) == [status |-> status, body |-> body, tasks |-> t, seq |-> s]

\* The 404 and 400 answers of the Express controllers.
ExpressTaskNotFound(id) ==
  [error |-> "Not Found", message |-> <<"Task with id ", id, " not found">>]

ExpressNoValidFields ==
  [error |-> "Bad Request", message |-> <<"No valid fields to update">>]

\* parseInt(limit), parseInt(offset)
ParseInt(v) ==
  IF v.type = "number" THEN v.val
  ELSE LET n == CoerceNumber(v.val) IN IF n.type = "number" THEN n.val ELSE 0

\* getAllTasks (Express)
ExpressGetAllTasks(t, s, query, tie) ==
  LET completed == query.completed
      priority == query.priority
      limit == IF query.limit = Undefined THEN DefaultLimit ELSE ParseInt(query.limit)
      offset == IF query.offset = Undefined THEN DefaultOffset ELSE ParseInt(query.offset)
      rows == SelectPage(t, completed, priority, limit, offset, tie)
      total == CountMatching(t, completed, priority)
  IN Outcome(200,
             [data |-> rows,
              pagination |-> [total |-> total, limit |-> limit, offset |-> offset,
                              hasMore |-> offset + Len(rows) < total]],
             t, s)

\* getTaskById (Express)
ExpressGetTaskById(t, s, id) ==
  LET task == SelectById(t, id)
  IN IF task = Undefined
       THEN Outcome(404, ExpressTaskNotFound(id), t, s)
       ELSE Outcome(200, [data |-> task], t, s)

\* createTask (Express)
ExpressCreateTask(t, s, input, clock) ==
  LET title == input.title
      description == IF input.description = Undefined THEN Null ELSE input.description
      priority == IF input.priority = Undefined THEN Str(Medium) ELSE input.priority
      result == InsertTask(t, s, title, description, priority, clock)
      newTask == SelectById(result.tasks, result.lastInsertRowid)
  IN Outcome(201, [message |-> "Task created successfully", data |-> newTask],
             result.tasks, result.seq)

\* updateTask (Express):  priority: priority || 'medium'
ExpressUpdateTask(t, s, id, input, clock) ==
  LET existingTask == SelectById(t, id)
      params == [title |-> input.title,
                 description |-> IF input.description \in {Undefined, Null}
                                   THEN Null ELSE input.description,
                 completed |-> IF input.completed.val THEN 1 ELSE 0,
                 priority |-> IF input.priority \in {Undefined, Null, Str(<<>>)}
                                THEN Str(Medium) ELSE input.priority]
      written == UpdateTask(t, id, params, clock)
  IN IF existingTask = Undefined
       THEN Outcome(404, ExpressTaskNotFound(id), t, s)
       ELSE Outcome(200, [message |-> "Task updated successfully",
                          data |-> SelectById(written, id)], written, s)

\* patchTask (Express):  Object.keys(updates).filter(key => allowedFields.includes(key))
ExpressPatchTask(t, s, id, updates, clock) ==
  LET existingTask == SelectById(t, id)
      fieldsToUpdate == KeysOf(updates) \cap AllowedFields
      params == [field \in fieldsToUpdate |->
                   IF field = "completed"
                     THEN (IF updates[field].val THEN 1 ELSE 0)
                     ELSE updates[field]]
      written == UpdateTask(t, id, params, clock)
  IN IF existingTask = Undefined
       THEN Outcome(404, ExpressTaskNotFound(id), t, s)
     ELSE IF fieldsToUpdate = {}
       THEN Outcome(400, ExpressNoValidFields, t, s)
       ELSE Outcome(200, [message |-> "Task updated successfully",
                          data |-> SelectById(written, id)], written, s)

\* deleteTask (Express)
ExpressDeleteTask(t, s, id) ==
  IF SelectById(t, id) = Undefined
    THEN Outcome(404, ExpressTaskNotFound(id), t, s)
    ELSE Outcome(204, Null, DeleteById(t, id), s)

\* The Express controller for a request of the Hono API.
ExpressController(t, s, clock, tie, exchange) ==
  CASE exchange.method = "GET" /\ exchange.param = NoParam ->
         ExpressGetAllTasks(t, s, exchange.validatedQuery, tie)
    [] exchange.method = "GET" /\ exchange.param # NoParam ->
         ExpressGetTaskById(t, s, exchange.id)
    [] exchange.method = "POST" -> ExpressCreateTask(t, s, exchange.validatedBody, clock)
    [] exchange.method = "PUT" ->
         ExpressUpdateTask(t, s, exchange.id, exchange.validatedBody, clock)
    [] exchange.method = "PATCH" ->
         ExpressPatchTask(t, s, exchange.id, exchange.validatedBody, clock)
    [] exchange.method = "DELETE" -> ExpressDeleteTask(t, s, exchange.id)

\* The server reads a request from a free connection.  Its handler has not
\* run: the middleware chain is suspended in await c.req.json() until the body
\* has been read, and a request without a body waits for its turn in the event
\* loop.  The id check of validateParams reads nothing but the request, so it
\* is taken together with the rest of the chain.
Receive(c, request) ==
  /\ c \notin DOMAIN inflight
  /\ inflight' = [d \in DOMAIN inflight \cup {c} |->
                    IF d = c
                      THEN [request |-> request, phase |-> "received", status |-> 0,
                            body |-> Null, waiting |-> {}]
                      ELSE inflight[d]]
  /\ UNCHANGED <<tasks, seq, now, last, created, deleted, returned, tieOrder, proc, schema>>

\* The handler of the request on connection c is the next the event loop runs.
Pending(c, method) ==
  /\ c \in DOMAIN inflight
  /\ inflight[c].phase # "answered"
  /\ inflight[c].request.method = method

\* The client has read the response; the connection is free again.
Collect(c) ==
  /\ c \in DOMAIN inflight
  /\ inflight[c].phase = "answered"
  /\ inflight' = [d \in DOMAIN inflight \ {c} |-> inflight[d]]
  /\ UNCHANGED <<tasks, seq, now, last, created, deleted, returned, tieOrder, proc, schema>>

\* A request with a valid id reaches its controller, whose first statement
\* throws: the error propagates to app.onError, which answers.
StorageFault(method, p, fault) ==
  LET answer == errorHandler(fault)
  IN /\ Respond(method, p, ParsedParams[p].data.id, NoBody, Undefined, answer.status,
                answer.body, <<"SELECT">>)
     /\ UNCHANGED <<tasks, seq, now, created, deleted, returned>>

\* initializeDatabase() is called: by the entry module before serve(), by
\* the test setup before the tests, and again by whoever imports it.
InitializeDatabase ==
  LET db == initializeDatabase(Database(schema.table, schema.trigger, tasks, seq))
  IN /\ schema.calls < MaxInitialize
     /\ schema' = [table |-> db.table, trigger |-> db.trigger, calls |-> schema.calls + 1]
     /\ tasks' = db.tasks
     /\ seq' = db.seq
     /\ last' = Exchange("initializeDatabase", NoParam, NoQuery, NoBody, 0, Undefined,
                         Undefined, 0, IF db.threw THEN SqliteTableExists ELSE Null,
                         <<"CREATE TABLE", "CREATE TRIGGER">>)
     /\ UNCHANGED <<now, created, deleted, returned, tieOrder, proc, inflight>>

----------------------------------------------------------------------------
\* The process: HTTP server, signals, graceful shutdown

store == <<tasks, seq, now, last, created, deleted, returned, tieOrder, schema, inflight>>

Signals == {"SIGTERM", "SIGINT", "uncaughtException"}

Running == proc.exitCode = -1

\* process.exit(code)
Exit(p, code) == [p EXCEPT !.exitCode = code]

\* The server gets its handle and listens.
Listen ==
  /\ Running
  /\ proc.server = "starting"
  /\ proc' = [proc EXCEPT !.server = "listening"]
  /\ UNCHANGED store

\* A client connects and its request is in flight.
Connect ==
  /\ Running
  /\ proc.server = "listening"
  /\ proc.connections < MaxConnections
  /\ proc' = [proc EXCEPT !.connections = @ + 1]
  /\ UNCHANGED store

\* A request in flight finishes and its connection ends.
Finish ==
  /\ Running
  /\ proc.connections > 0
  /\ proc' = [proc EXCEPT !.connections = @ - 1]
  /\ UNCHANGED store

\* server.close(callback): a server with a handle stops listening and calls
\* back without error once it has drained; one without a handle calls back
\* with ERR_SERVER_NOT_RUNNING.  Either way on the 'close' event.
ServerClose(p) ==
  [p EXCEPT !.closeListeners = Append(@, IF p.server = "listening" THEN "ok" ELSE "err"),
            !.server = IF p.server = "listening" THEN "closed" ELSE @]

\* setTimeout(() => process.exit(1), 10000)
SetTimeout(p) == [p EXCEPT !.timers = @ + 1]

\* closeDatabase(): db.close() returns or throws.
closeDatabase(p, throws) ==
  [p EXCEPT !.closeDatabaseCalls = @ + 1, !.databaseClosed = ~throws]

\* A gracefulShutdown that closes the database at once and then asks the
\* server to close.
gracefulShutdownDatabaseFirst(signal) ==
  /\ Running
  /\ Len(proc.signals) < MaxSignals
  /\ proc' = [closeDatabase(SetTimeout(ServerClose(proc)), FALSE)
                EXCEPT !.signals = Append(@, signal)]
  /\ UNCHANGED store

\* gracefulShutdown(signal), run by the handlers of SIGTERM, SIGINT and
\* uncaughtException
gracefulShutdown(signal) ==
  /\ Running
  /\ Len(proc.signals) < MaxSignals
  /\ proc' = [SetTimeout(ServerClose(proc)) EXCEPT !.signals = Append(@, signal)]
  /\ UNCHANGED store

\* The callback given to server.close
CloseCallback(p, err, throws) ==
  IF err = "err"
    THEN Exit(p, 1)
    ELSE LET closed == closeDatabase([p EXCEPT !.serverClosed = TRUE], throws)
         IN Exit(closed, IF throws THEN 1 ELSE 0)

\* The server emits 'close': it has no handle and no connection left.  The
\* listeners run in the order they were added; the first one exits.
EmitClose ==
  /\ Running
  /\ proc.server # "listening"
  /\ proc.connections = 0
  /\ proc.closeListeners # <<>>
  /\ \E throws \in BOOLEAN :
       proc' = CloseCallback(proc, Head(proc.closeListeners), throws)
  /\ UNCHANGED store

\* A shutdown timer that never fires.
TimerNeverFires ==
  /\ Running
  /\ proc.timers > 0
  /\ UNCHANGED vars

\* The 10-second timer of a gracefulShutdown call fires.
TimerFires ==
  /\ Running
  /\ proc.timers > 0
  /\ proc' = Exit([proc EXCEPT !.timers = @ - 1], 1)
  /\ UNCHANGED store

NextShutdown ==
  \/ Listen
  \/ Connect
  \/ Finish
  \/ \E signal \in Signals : gracefulShutdown(signal)
  \/ EmitClose
  \/ TimerFires

----------------------------------------------------------------------------
\* The requests a client may send next: path parameters from ids, bodies
\* from creates, updates and patches, and at most cap creates answered 201.
Requests(ids, creates, updates, patches, cap) ==
  \/ \E p \in ids : GetTaskById(p)
  \/ \E body \in creates : CreateTask(body, cap)
  \/ \E p \in ids, body \in updates : UpdateTaskById(p, body)
  \/ \E p \in ids, body \in patches : PatchTaskById(p, body)
  \/ \E p \in ids : DeleteTaskById(p)
  \/ UnmatchedRoute

Next ==
  \/ Requests(IdParamsUpTo(MaxId) \cup {NotANumber}, FewCreateBodies, FewUpdateBodies, FewPatchBodies, MaxId)
  \/ Tick

NextFields ==
  \/ Requests(IdParamsUpTo(MaxTasks), CreateBodies, UpdateBodies, PatchBodies, MaxTasks)
  \/ Tick

NextValidation ==
  \/ Requests(IdParamsUpTo(MaxTasks) \cup {NotANumber}, InvalidCreateBodies,
              InvalidUpdateBodies, InvalidPatchBodies, MaxTasks)
  \/ \E query \in InvalidQueries : GetAllTasks(query)
  \/ Tick

NextMalformed ==
  \/ Requests(IdParamsUpTo(MaxTasks) \cup {NotANumber}, MalformedCreateBodies,
              MalformedUpdateBodies, MalformedPatchBodies, MaxTasks)
  \/ Tick

NextList ==
  \/ \E body \in ListCreateBodies : CreateTask(body, MaxListed)
  \/ \E p \in IdParamsUpTo(MaxListed), body \in ListPatchBodies : PatchTaskById(p, body)
  \/ \E query \in ListQueries : GetAllTasks(query)
  \/ Tick

\* Requests are served once initializeDatabase has run.
NextInitialize ==
  \/ InitializeDatabase
  \/ schema.calls > 0 /\ \E p \in IdParamsUpTo(MaxTasks) : GetTaskById(p)
  \/ schema.calls > 0 /\ \E body \in FewCreateBodies : CreateTask(body, MaxTasks)
  \/ schema.calls > 0 /\ \E p \in IdParamsUpTo(MaxTasks), body \in FewUpdateBodies :
                           UpdateTaskById(p, body)
  \/ schema.calls > 0 /\ \E p \in IdParamsUpTo(MaxTasks), body \in FewPatchBodies :
                           PatchTaskById(p, body)
  \/ schema.calls > 0 /\ \E p \in IdParamsUpTo(MaxTasks) : DeleteTaskById(p)
  \/ Tick

\* Requests, some of which meet a fault of the storage layer.
NextFaults ==
  \/ Requests(IdParamsUpTo(MaxTasks), FewCreateBodies, FewUpdateBodies, FewPatchBodies,
              MaxTasks)
  \/ \E method \in {"GET", "DELETE"}, p \in IdParamsUpTo(MaxTasks), fault \in StorageFaults :
       StorageFault(method, p, fault)
  \/ Tick

NextTitles ==
  \/ Requests(IdParamsUpTo(MaxTasks), BoundaryCreateBodies, FewUpdateBodies, FewPatchBodies,
              MaxTasks)
  \/ Tick

NextPatch ==
  \/ Requests(IdParamsUpTo(MaxTasks) \cup {NotANumber}, FewCreateBodies, FewUpdateBodies,
              OrderPatchBodies, MaxTasks)
  \/ \E query \in InvalidQueries : GetAllTasks(query)
  \/ Tick

\* Several requests in flight, within one second of the clock: each step of
\* the event loop takes in a request, runs one handler from where it was
\* suspended to its end, or hands a response to its client.
NextConcurrent ==
  \/ \E c \in 1..MaxInFlight, request \in ConcurrentRequests : Receive(c, request)
  \/ \E c \in 1..MaxInFlight :
       Pending(c, "POST") /\ CreateTask(inflight[c].request.sent, MaxTasks)
  \/ \E c \in 1..MaxInFlight :
       Pending(c, "PUT") /\ UpdateTaskById(inflight[c].request.param, inflight[c].request.sent)
  \/ \E c \in 1..MaxInFlight :
       Pending(c, "PATCH") /\ PatchTaskById(inflight[c].request.param, inflight[c].request.sent)
  \/ \E c \in 1..MaxInFlight :
       Pending(c, "DELETE") /\ DeleteTaskById(inflight[c].request.param)
  \/ \E c \in 1..MaxInFlight : Collect(c)

\* Several tasks, few bodies.
Spec == Init /\ [][Next]_vars

\* Few tasks, many bodies.
SpecFields == Init /\ [][NextFields]_vars

\* One task, several requests in flight.
SpecConcurrent == Init /\ [][NextConcurrent]_vars

\* Few tasks, statements that throw, every NODE_ENV.
SpecFaults == InitFaults /\ [][NextFaults]_vars

\* The database from the module load on, initializeDatabase called again.
SpecInitialize == InitDatabase /\ [][NextInitialize]_vars

\* Tasks of several priorities and completion states, list requests.
SpecList == InitList /\ [][NextList]_vars

\* Few tasks, request bodies that are not JSON.
SpecMalformed == Init /\ [][NextMalformed]_vars

\* The process from start to exit.
SpecShutdown == Init /\ [][NextShutdown]_vars

\* The same, with the event loop running every timer that is due.
SpecShutdownLive == Init /\ [][NextShutdown]_vars /\ WF_vars(TimerFires)

\* Few tasks, every kind of PATCH body, ids that are valid and not, list
\* requests that pass validation and not.
SpecPatch == Init /\ [][NextPatch]_vars

\* Few tasks, creates with titles at the bounds of the schema.
SpecTitles == Init /\ [][NextTitles]_vars

\* Few tasks, requests that fail validation.
SpecValidation == Init /\ [][NextValidation]_vars

----------------------------------------------------------------------------
\* Properties

Answered(method, status) == last.method = method /\ last.status = status

\* A step that handles a request (time stands still while it runs).
Handled(method, status) ==
  now' = now /\ last'.method = method /\ last'.status = status

\* The value a validated field takes in its column.
Stored(field, v) ==
  IF field = "completed" THEN (IF v.val THEN 1 ELSE 0) ELSE v

\* C1: every successful create returns a positive id that no earlier
\* successful create has returned, deleted tasks included.
C1_CreateIdsFresh ==
  /\ \A i \in 1..Len(created) : created[i] > 0
  /\ \A i, j \in 1..Len(created) : i # j => created[i] # created[j]
  /\ Answered("POST", 201) =>
       /\ Len(created) > 0
       /\ last.body.data.id = created[Len(created)]

\* C1 witness: a create answered 201 after an earlier task was deleted.
C1_Witness ==
  /\ Answered("POST", 201)
  /\ deleted # {}
  /\ Len(created) >= 2

\* C2 as claimed: a successful PUT or PATCH leaves updated_at different from
\* the value it had before the request.
C2_UpdatedAtChanges ==
  [][(Handled("PUT", 200) \/ Handled("PATCH", 200)) =>
       tasks'[last'.id].updated_at # tasks[last'.id].updated_at]_vars

\* C2 amended: a successful PUT or PATCH sets updated_at to the clock's
\* reading in whole seconds; it is never less than the value before the
\* request, and greater whenever the clock has moved past that value.
C2_UpdatedAtIsNow ==
  [][(Handled("PUT", 200) \/ Handled("PATCH", 200)) =>
       LET old == tasks[last'.id]
           new == tasks'[last'.id]
       IN /\ new.updated_at = now
          /\ last'.body.data.updated_at = now
          /\ new.updated_at >= old.updated_at
          /\ old.updated_at < now => new.updated_at > old.updated_at]_vars

\* C2 witness: an update answered 200 a second or more after the creation.
C2_Witness ==
  /\ Answered("PUT", 200) \/ Answered("PATCH", 200)
  /\ last.id \in DOMAIN tasks
  /\ tasks[last.id].updated_at > tasks[last.id].created_at
  /\ last.body.data.updated_at = now

\* C3: every stored task has updated_at >= created_at.
C3_UpdatedNotBeforeCreated ==
  \A id \in DOMAIN tasks : tasks[id].updated_at >= tasks[id].created_at

\* C3 witness: two stored tasks, one of them updated after its creation.
C3_Witness ==
  /\ Cardinality(DOMAIN tasks) = 2
  /\ \E id \in DOMAIN tasks : tasks[id].updated_at > tasks[id].created_at
  /\ \E id \in DOMAIN tasks : tasks[id].updated_at = tasks[id].created_at

\* C4: the task returned by a successful create has created_at = updated_at.
C4_CreateTimestampsEqual ==
  Answered("POST", 201) => last.body.data.created_at = last.body.data.updated_at

\* C4 witness: a create answered 201 after the clock has left its first second.
C4_Witness ==
  /\ Answered("POST", 201)
  /\ last.body.data.created_at > 0
  /\ last.body.data.priority = Str(High)

\* A request addressed to an id that an earlier DELETE has removed.
LaterRequestForDeleted ==
  /\ last.id \in deleted
  /\ ~Answered("DELETE", 204)

\* C5 as claimed: once DELETE has answered 204 for an id, every later GET,
\* PUT, PATCH or DELETE for that id is answered 404.
C5_DeletedAlways404 ==
  LaterRequestForDeleted => last.status = 404

\* C5 amended: once DELETE has answered 204 for an id the row is gone for
\* good, and every later GET or DELETE for that id, and every later PUT or
\* PATCH whose body passes validation, is answered 404; a PUT or PATCH whose
\* body fails validation is answered 400.
C5_DeletedNeverFound ==
  /\ deleted \cap DOMAIN tasks = {}
  /\ LaterRequestForDeleted =>
       \/ last.status = 404
       \/ /\ last.method \in {"PUT", "PATCH"}
          /\ last.validatedBody = Undefined
          /\ last.status = 400
          /\ "details" \in DOMAIN last.body

\* C5 witness: a PATCH with a valid body for a deleted id, answered 404 while
\* another task is stored.
C5_Witness ==
  /\ LaterRequestForDeleted
  /\ Answered("PATCH", 404)
  /\ last.validatedBody # Undefined
  /\ DOMAIN tasks # {}

\* C6: GET for a valid id that has no row is answered 404 with a body whose
\* error field is "Not Found".
C6_GetMissingErrorField ==
  (last.method = "GET" /\ last.id > 0 /\ last.id \notin DOMAIN tasks) =>
    /\ last.status = 404
    /\ "error" \in DOMAIN last.body
    /\ last.body.error = "Not Found"

\* C7: every answer outside 2xx carries error, message and timestamp at the
\* top level of its body.
C7_ErrorEnvelope ==
  (last.method # "NONE" /\ last.status \notin 200..299) =>
    {"error", "message", "timestamp"} \subseteq DOMAIN last.body

\* C8: PATCH on an existing task with a body that has none of title,
\* description, completed, priority is answered 400 "No valid fields to
\* update", never 200.
C8_EmptyPatchRejected ==
  (last.method = "PATCH" /\ last.id \in DOMAIN tasks
     /\ last.rawKeys \cap AllowedFields = {}) =>
    /\ last.status = 400
    /\ last.body = NoValidFields

\* C8 witness: a PATCH carrying only an unknown field, for a stored task.
C8_Witness ==
  /\ Answered("PATCH", 400)
  /\ last.id \in DOMAIN tasks
  /\ last.rawKeys = {"extra"}

\* C9: a successful PATCH sets exactly the fields of the validated body to
\* their values (completed as 0/1, null description as null) and leaves the
\* other fields, the id and created_at as they were.
C9_PatchFrame ==
  [][Handled("PATCH", 200) =>
       LET id == last'.id
           updates == last'.validatedBody
           old == tasks[id]
           new == tasks'[id]
       IN /\ id \in DOMAIN tasks
          /\ id \in DOMAIN tasks'
          /\ \A f \in AllowedFields :
               new[f] = IF updates[f] # Undefined THEN Stored(f, updates[f]) ELSE old[f]
          /\ new.id = old.id
          /\ new.created_at = old.created_at]_vars

\* C9 witness: a PATCH that cleared the description of a task whose title,
\* completed flag and priority had been changed before, and kept them.
C9_Witness ==
  /\ Answered("PATCH", 200)
  /\ last.validatedBody.description = Null
  /\ last.validatedBody.title = Undefined
  /\ last.id \in DOMAIN tasks
  /\ tasks[last.id].description = Null
  /\ tasks[last.id].title = Str(<<"b">>)
  /\ tasks[last.id].completed = 1
  /\ tasks[last.id].priority = Str(High)

\* C10: a successful PUT stores the four values of the request whatever the
\* row held before, keeps id and created_at, and answers 200 with the row as
\* it is in storage after the write.
C10_PutOverwrites ==
  [][Handled("PUT", 200) =>
       LET id == last'.id
           input == last'.validatedBody
           old == tasks[id]
           new == tasks'[id]
       IN /\ id \in DOMAIN tasks
          /\ id \in DOMAIN tasks'
          /\ \A f \in AllowedFields : new[f] = Stored(f, input[f])
          /\ new.id = old.id
          /\ new.created_at = old.created_at
          /\ last'.body.data = new]_vars

\* C10 witness: a PUT that stored false and a null description over a task
\* that was completed and had a description.
C10_Witness ==
  /\ Answered("PUT", 200)
  /\ last.validatedBody.completed = Bool(FALSE)
  /\ last.validatedBody.description = Null
  /\ last.body.data.completed = 0
  /\ last.body.data.description = Null
  /\ last.body.data.updated_at > last.body.data.created_at

\* C11: a PUT whose body lacks title, description, completed or priority is
\* answered 400 Validation Error, whether or not the id has a row, and leaves
\* the table as it was.
C11_PutMissingFieldRejected ==
  [][(now' = now /\ last'.method = "PUT" /\ AllowedFields \ last'.rawKeys # {}) =>
       /\ last'.status = 400
       /\ last'.body.error = "Validation Error"
       /\ last'.body.details # {}
       /\ tasks' = tasks]_vars

\* C11 witness: a PUT that carries everything but description, for a stored
\* task, answered 400.
C11_Witness ==
  /\ Answered("PUT", 400)
  /\ last.id \in DOMAIN tasks
  /\ last.rawKeys = {"title", "completed", "priority"}

\* The last request fails the schema of its path parameter, of its query
\* string or of its body.
FailsValidation ==
  \/ last.param # NoParam /\ ~idParamSchema(last.param).success
  \/ last.method = "GET" /\ last.param = NoParam /\ ~listQuerySchema(last.query).success
  \/ last.method = "POST" /\ ~createTaskSchema(last.sent).success
  \/ last.method = "PUT" /\ ~updateTaskSchema(last.sent).success
  \/ last.method = "PATCH" /\ ~patchTaskSchema(last.sent).success

\* C12: a request whose path id, query string or body fails validation is
\* answered 400 with an itemized list of details, and runs no SQL statement,
\* a read included; so an invalid body for an id without a row gets 400.
C12_ValidationBeforeStorage ==
  FailsValidation =>
    /\ last.status = 400
    /\ last.body.error = "Validation Error"
    /\ last.body.details # {}
    /\ last.statements = <<>>

\* C12 witness: a PUT with a valid id that has no row and a body that fails
\* validation, answered 400.
C12_Witness ==
  /\ FailsValidation
  /\ last.method = "PUT"
  /\ idParamSchema(last.param).success
  /\ last.id \notin DOMAIN tasks
  /\ last.status = 400

\* The last request is a list request answered 200.
Listed == last.method = "GET" /\ last.param = NoParam /\ last.status = 200

\* The ids on a page.
IdsOn(page) == {page.data[i].id : i \in 1..Len(page.data)}

\* The page a list request with the filters of the last one, its limit and
\* the offset k * limit gets from the table as it stands.
PageAt(k) ==
  LET limit == last.body.pagination.limit
  IN ListResponse(tasks, [last.validatedQuery EXCEPT !.limit = Num(limit),
                                                     !.offset = Num(k * limit)], tieOrder)

\* The index of the last page: the first whose end reaches the total.
LastPage ==
  LET total == last.body.pagination.total
      limit == last.body.pagination.limit
  IN IF total = 0 THEN 0 ELSE (total - 1) \div limit

\* A row passes the filters of a query string as sent.
PassesFilters(row, query) ==
  /\ query.completed = Str(True) => row.completed = 1
  /\ query.completed = Str(False) => row.completed = 0
  /\ query.priority # Undefined => row.priority = query.priority

\* C13: with the table, the filter and the limit L fixed, the pages at offsets
\* 0, L, 2L, ... are pairwise disjoint, hold every matching task exactly once,
\* and have hasMore true except on the last; the page a request is answered
\* with is the one of these at its offset.
C13_PagesPartition ==
  Listed =>
    LET limit == last.body.pagination.limit
        offset == last.body.pagination.offset
    IN /\ \A k \in 0..LastPage :
            /\ Cardinality(IdsOn(PageAt(k))) = Len(PageAt(k).data)
            /\ PageAt(k).pagination.hasMore = (k < LastPage)
            /\ \A j \in 0..(k - 1) : IdsOn(PageAt(j)) \cap IdsOn(PageAt(k)) = {}
       /\ UNION {IdsOn(PageAt(k)) : k \in 0..LastPage} =
            {i \in DOMAIN tasks : PassesFilters(tasks[i], last.query)}
       /\ (offset % limit = 0 /\ offset \div limit <= LastPage) =>
            last.body = PageAt(offset \div limit)

\* C13 witness: the second and last page of one row each, over two tasks
\* created in the same second.
C13_Witness ==
  /\ Listed
  /\ last.body.pagination = [total |-> 2, limit |-> 1, offset |-> 1, hasMore |-> FALSE]
  /\ Len(last.body.data) = 1
  /\ \A i, j \in DOMAIN tasks : tasks[i].created_at = tasks[j].created_at
  /\ last.validatedQuery.completed = Undefined
  /\ last.validatedQuery.priority = Undefined

\* C14: a list answer holds only rows that pass every filter given, and its
\* total is the number of stored rows that pass them, whatever the limit and
\* the offset.
C14_FiltersAndTotal ==
  Listed =>
    /\ \A n \in 1..Len(last.body.data) :
         /\ PassesFilters(last.body.data[n], last.query)
         /\ last.body.data[n] \in {tasks[i] : i \in DOMAIN tasks}
    /\ last.body.pagination.total =
         Cardinality({i \in DOMAIN tasks : PassesFilters(tasks[i], last.query)})

\* C14 witness: both filters given, one of two stored rows passing them, asked
\* for beyond the only page.
C14_Witness ==
  /\ Listed
  /\ last.query.completed = Str(True)
  /\ last.query.priority = Str(High)
  /\ Cardinality(DOMAIN tasks) = 2
  /\ last.body.pagination.total = 1
  /\ last.body.pagination.offset = 1
  /\ last.body.data = <<>>

\* C15: a create that carries only a valid title is answered 201 and stores
\* the task with priority "medium", completed 0 and description null; a
\* priority given with a successful create is stored as given.
C15_CreateDefaults ==
  /\ (last.method = "POST" /\ last.rawKeys = {"title"} /\ TitleSchema(last.sent.title).success) =>
       /\ last.status = 201
       /\ last.body.data.title = Str(Trim(last.sent.title.val))
       /\ last.body.data.priority = Str(Medium)
       /\ last.body.data.completed = 0
       /\ last.body.data.description = Null
       /\ tasks[last.body.data.id] = last.body.data
  /\ (Answered("POST", 201) /\ last.sent.priority # Undefined) =>
       /\ last.body.data.priority = last.sent.priority
       /\ tasks[last.body.data.id].priority = last.sent.priority

\* C15 witness: a create with a title alone, answered 201 in the second second.
C15_Witness ==
  /\ Answered("POST", 201)
  /\ last.rawKeys = {"title"}
  /\ last.body.data.priority = Str(Medium)
  /\ last.body.data.created_at = MaxClock

\* C16: a GET of an id whose task was created and not updated or deleted since
\* is answered 200 with the task as the create returned it; a null description
\* comes back null.
C16_CreateThenGet ==
  (last.method = "GET" /\ last.id \in DOMAIN returned) =>
    /\ last.status = 200
    /\ last.body.data = returned[last.id]
    /\ returned[last.id].description = Null => last.body.data.description = Null

\* C16 witness: a GET, a second after the create, of a task created with
\* description null and not touched since.
C16_Witness ==
  /\ Answered("GET", 200)
  /\ last.id \in DOMAIN returned
  /\ last.body.data.description = Null
  /\ last.body.data.priority = Str(High)
  /\ last.body.data.created_at < now

\* C17: a POST, PUT or PATCH whose body is not JSON is answered 400, not 500,
\* and runs no SQL statement.
C17_MalformedBodyIs400 ==
  (last.sent = NotJson /\ (last.param = NoParam \/ idParamSchema(last.param).success)) =>
    /\ last.status = 400
    /\ last.statements = <<>>

\* C18: every stored task has a priority among low, medium and high at all
\* times, and a POST, PUT or PATCH that carries another priority is rejected
\* with 400 and leaves the table as it was.
C18_PriorityInEnum ==
  /\ [](\A id \in DOMAIN tasks : tasks[id].priority \in {Str(Low), Str(Medium), Str(High)})
  /\ [][(/\ now' = now
         /\ last'.method \in {"POST", "PUT", "PATCH"}
         /\ last'.sent # NotJson
         /\ last'.sent.priority \notin {Undefined, Str(Low), Str(Medium), Str(High)}) =>
          /\ last'.status = 400
          /\ tasks' = tasks]_vars

\* C18 witness: a PATCH with priority "urgent" for a stored task of priority
\* low, answered 400.
C18_Witness ==
  /\ Answered("PATCH", 400)
  /\ last.sent.priority = Str(Urgent)
  /\ last.id \in DOMAIN tasks
  /\ tasks[last.id].priority = Str(Low)

Exited == proc.exitCode # -1

\* C19: whenever the process has exited after a shutdown, closeDatabase has
\* been called exactly once.
C19_DatabaseClosedOnce ==
  Exited => proc.closeDatabaseCalls = 1

\* C20: once a signal has started the shutdown the process eventually exits,
\* the timer firing if nothing else does; the exit code is 0 when the server
\* closed without error and the database closed without error, and 1
\* otherwise.
C20_EventuallyExits ==
  /\ [](Exited => proc.exitCode = (IF proc.serverClosed /\ proc.databaseClosed THEN 0 ELSE 1))
  /\ (proc.signals # <<>>) ~> Exited

\* C20 witness: the process exited with 1 while a request was still in flight.
C20_Witness ==
  /\ Exited
  /\ proc.exitCode = 1
  /\ proc.connections > 0
  /\ proc.signals = <<"SIGTERM">>

\* C21: initializeDatabase called on a database it has initialized before,
\* with or without stored tasks, does not throw and leaves the table, the
\* trigger, every stored row and the id sequence as they were.
C21_InitializeIdempotent ==
  [][(last'.method = "initializeDatabase" /\ schema'.calls = schema.calls + 1
        /\ schema.calls > 0) =>
       /\ last'.body = Null
       /\ schema'.table /\ schema'.trigger
       /\ schema'.table = schema.table
       /\ schema'.trigger = schema.trigger
       /\ tasks' = tasks
       /\ seq' = seq]_vars

\* C21 witness: a second call on a table that holds a task updated after its
\* creation.
C21_Witness ==
  /\ last.method = "initializeDatabase"
  /\ schema.calls = 2
  /\ \E id \in DOMAIN tasks : tasks[id].updated_at > tasks[id].created_at

\* A step in which a controller ran: the request passed its validation
\* middleware and reached a statement.
ControllerRan ==
  /\ now' = now
  /\ last'.method \in {"GET", "POST", "PUT", "PATCH", "DELETE"}
  /\ last'.statements # <<>>

\* C22: whenever a Hono controller runs, the Express controller run on the
\* same table with the same validated input gives the same status and the
\* same response body and leaves the same table.
C22_ControllersIdentical ==
  [][ControllerRan =>
       LET express == ExpressController(tasks, seq, now, tieOrder, last')
       IN /\ express.status = last'.status
          /\ express.body = last'.body
          /\ express.tasks = tasks'
          /\ express.seq = seq']_vars

\* The body that hides the fault.
GenericDatabaseError ==
  [error |-> "Database Error", message |-> <<"An internal database error occurred">>,
   timestamp |-> now]

\* C23: a fault of the storage layer that reaches the error handler is
\* answered 500 "Database Error", by the Hono handler and by the Express one;
\* unless NODE_ENV is development the body is the same for every fault, the
\* fixed generic message and the timestamp, and in development it carries
\* the fault's own message.
C23_DatabaseErrorGeneric ==
  [][\A method \in {"GET", "DELETE"}, p \in IdParamsUpTo(MaxTasks), fault \in StorageFaults :
       StorageFault(method, p, fault) =>
         /\ last'.status = 500
         /\ last'.body.error = "Database Error"
         /\ last'.body.message = (IF proc.env = "development" THEN fault.message
                                  ELSE GenericDatabaseError.message)
         /\ proc.env # "development" => last'.body = GenericDatabaseError
         /\ ExpressErrorHandler(fault) = [status |-> last'.status, body |-> last'.body]
         /\ tasks' = tasks]_vars

\* C23 witness: a DELETE of a stored task met a fault under NODE_ENV=test
\* and was answered with the generic body.
C23_Witness ==
  /\ Answered("DELETE", 500)
  /\ last.id \in DOMAIN tasks
  /\ proc.env = "test"
  /\ last.body = GenericDatabaseError

\* C24: a create whose title is a string is answered 201, the trimmed title
\* stored, exactly when the title's length after trimming is between 1 and
\* 200; otherwise it is answered 400 and the table and the id sequence stay as
\* they were.
C24_TitleBounds ==
  [][(now' = now /\ last'.method = "POST" /\ last'.sent.title.type = "string"
        /\ KeysOf(last'.sent) = {"title"}) =>
       LET trimmed == Trim(last'.sent.title.val)
       IN IF Len(trimmed) >= 1 /\ Len(trimmed) <= 200
            THEN /\ last'.status = 201
                 /\ last'.body.data.title = Str(trimmed)
                 /\ tasks'[last'.body.data.id].title = Str(trimmed)
            ELSE /\ last'.status = 400
                 /\ last'.body.error = "Validation Error"
                 /\ tasks' = tasks
                 /\ seq' = seq]_vars

\* C24 witness: a title of 200 characters between two spaces, created and
\* stored without the spaces.
C24_Witness ==
  /\ Answered("POST", 201)
  /\ Len(last.sent.title.val) = 202
  /\ Len(last.body.data.title.val) = 200
  /\ tasks[last.body.data.id].title = last.body.data.title

\* The matching rows that come after the page of the last list answer, in
\* the order of the list.
RowsAfterPage ==
  LET p == last.body.pagination
      matching == OrderByCreatedAtDesc(
                    tasks, {i \in DOMAIN tasks : PassesFilters(tasks[i], last.query)}, tieOrder)
  IN SubSeq(matching, p.offset + Len(last.body.data) + 1, Len(matching))

\* C25: in every list answer limit and offset are the ones given, 50 and 0
\* when absent; hasMore equals offset + returned rows < total, equals
\* offset + limit < total, and is true exactly when matching rows remain
\* after the page.
C25_HasMore ==
  Listed =>
    LET p == last.body.pagination
    IN /\ p.limit = (IF last.query.limit = Undefined THEN 50
                     ELSE DecimalValue(last.query.limit.val))
       /\ p.offset = (IF last.query.offset = Undefined THEN 0
                      ELSE DecimalValue(last.query.offset.val))
       /\ p.hasMore = (p.offset + Len(last.body.data) < p.total)
       /\ p.hasMore = (p.offset + p.limit < p.total)
       /\ p.hasMore = (RowsAfterPage # <<>>)

\* C25 witness: the first page of one row out of two, hasMore true; reached
\* too is the full list under the defaults, hasMore false.
C25_Witness ==
  /\ Listed
  /\ last.body.pagination = [total |-> 2, limit |-> 1, offset |-> 0, hasMore |-> TRUE]
  /\ Len(last.body.data) = 1
  /\ RowsAfterPage # <<>>

\* C26: a PATCH is answered by the first of these that applies: 400
\* Validation Error for an id that fails validation, 400 Validation Error for
\* a body that fails validation, 404 for an id without a row, 400 "No valid
\* fields to update" for a body with none of the four fields, and 200
\* otherwise; so an empty body gets 404 without the row and 400 with it.
C26_PatchOrder ==
  last.method = "PATCH" =>
    IF ~idParamSchema(last.param).success
      THEN last.status = 400 /\ last.body.error = "Validation Error"
    ELSE IF ~patchTaskSchema(last.sent).success
      THEN last.status = 400 /\ last.body.error = "Validation Error"
    ELSE IF last.id \notin DOMAIN tasks
      THEN last.status = 404
    ELSE IF last.rawKeys \cap AllowedFields = {}
      THEN last.status = 400 /\ last.body = NoValidFields
      ELSE last.status = 200

\* C26 witness: a PATCH with a valid id and no field at all, answered 404 on
\* an empty table.
C26_Witness ==
  /\ Answered("PATCH", 404)
  /\ last.rawKeys = {}
  /\ last.validatedBody # Undefined
  /\ tasks = <<>>

\* The request on connection c gets its answer in this step.
AnsweredNow(c) ==
  /\ c \in DOMAIN inflight
  /\ inflight[c].phase # "answered"
  /\ c \in DOMAIN inflight'
  /\ inflight'[c].phase = "answered"

\* The request on connection c is one whose handler, run on the table as it
\* stands, finds the row it is addressed to.
FindsRow(c) ==
  LET request == inflight[c].request
      vp == idParamSchema(request.param)
  IN vp.success /\ vp.data.id \in DOMAIN tasks

\* Connections c and d hold the answers to two DELETEs of one id, and d was
\* in flight when the handler of c ran.
DeletesRaced(c, d) ==
  /\ c # d
  /\ {c, d} \subseteq DOMAIN inflight
  /\ inflight[c].phase = "answered" /\ inflight[d].phase = "answered"
  /\ inflight[c].request.method = "DELETE"
  /\ inflight[d].request = inflight[c].request
  /\ d \in inflight[c].waiting

\* C27: each step runs the handler of at most one request, with all its
\* statements; a PUT or PATCH with a valid body whose handler finds the row
\* answers 200 with the row as stored after its write, whatever else is in
\* flight; a DELETE whose handler finds the row answers 204; and of two
\* DELETEs of one id in flight together, the second handled answers 404 when
\* the first answered 204.
C27_HandlersAtomic ==
  /\ [](\A c, d \in 1..MaxInFlight :
          (DeletesRaced(c, d) /\ inflight[c].status = 204) => inflight[d].status = 404)
  /\ [][/\ Cardinality({c \in 1..MaxInFlight : AnsweredNow(c)}) <= 1
        /\ \A c \in 1..MaxInFlight :
             AnsweredNow(c) =>
               LET request == inflight[c].request
                   answer == inflight'[c]
                   id == idParamSchema(request.param).data.id
               IN /\ answer.status = last'.status /\ answer.body = last'.body
                  /\ (request.method \in {"PUT", "PATCH"} /\ answer.status = 200) =>
                       /\ id \in DOMAIN tasks'
                       /\ answer.body.data = tasks'[id]
                       /\ tasks'[id].completed = 1
                  /\ (request.method \in {"PUT", "PATCH"} /\ FindsRow(c)) =>
                       answer.status = 200
                  /\ (request.method = "DELETE" /\ FindsRow(c)) =>
                       /\ answer.status = 204
                       /\ id \notin DOMAIN tasks'
                  /\ (request.method \in {"PUT", "PATCH", "DELETE"} /\ ~FindsRow(c)) =>
                       /\ answer.status = 404
                       /\ tasks' = tasks]_vars

\* C27 witness: a PUT answered 200 with the row it wrote while a DELETE of
\* the same id was in flight, which then removed the row and answered 204.
C27_Witness ==
  \E c, d \in DOMAIN inflight :
    /\ inflight[c].phase = "answered" /\ inflight[d].phase = "answered"
    /\ inflight[c].request.method = "PUT"
    /\ inflight[d].request.method = "DELETE"
    /\ inflight[d].request.param = inflight[c].request.param
    /\ d \in inflight[c].waiting
    /\ inflight[c].status = 200
    /\ inflight[c].body.data.title = Str(<<"b">>)
    /\ inflight[d].status = 204
    /\ tasks = <<>>

\* C28: closeDatabase is called only once the server has stopped listening,
\* every connection has ended and the server has closed, in the step that
\* exits the process; no request handler runs, and nothing else happens,
\* once it has been called.
C28_DatabaseClosedAfterServer ==
  /\ [](proc.closeDatabaseCalls > 0 =>
          /\ proc.server = "closed"
          /\ proc.serverClosed
          /\ proc.connections = 0
          /\ Exited)
  /\ [][/\ proc.closeDatabaseCalls > 0 => proc' = proc
        /\ proc'.connections # proc.connections =>
             proc.closeDatabaseCalls = 0 /\ proc'.closeDatabaseCalls = 0]_vars

\* C28 witness: after two signals and with no connection left the server
\* closed, the database was closed and the process exited with 0.
C28_Witness ==
  /\ Exited
  /\ proc.exitCode = 0
  /\ proc.databaseClosed
  /\ proc.closeDatabaseCalls = 1
  /\ proc.server = "closed"
  /\ Len(proc.signals) = 2

\* A step that handles a request and answers it with one of the statuses.
HandledWith(statuses) ==
  /\ now' = now
  /\ last'.method \in {"GET", "POST", "PUT", "PATCH", "DELETE", "OTHER"}
  /\ last'.status \in statuses

\* C29: the table changes only in a step that answers a create with 201, a
\* PUT or PATCH with 200 or a DELETE with 204; a step that answers a GET, or
\* any request with a 4xx status, leaves every row, the set of rows and the
\* id sequence as they were.
C29_OnlySuccessfulWritesChange ==
  [][/\ (tasks' # tasks \/ seq' # seq) =>
          \/ Handled("POST", 201)
          \/ Handled("PUT", 200)
          \/ Handled("PATCH", 200)
          \/ Handled("DELETE", 204)
     /\ ((HandledWith(200..599) /\ last'.method = "GET") \/ HandledWith(400..499)) =>
          /\ tasks' = tasks
          /\ seq' = seq]_vars

\* C29 witness: a PATCH without fields answered 400, a second after the task
\* was last written, which kept its updated_at.
C29_Witness ==
  /\ Answered("PATCH", 400)
  /\ last.body = NoValidFields
  /\ last.id \in DOMAIN tasks
  /\ tasks[last.id].updated_at < now

\* C30: a PUT or PATCH answered 200 and a DELETE answered 204 leave every
\* task with another id as it was, updated_at included, and add or remove no
\* other row; a create answered 201 adds its row and leaves every task that
\* was stored as it was.
C30_OtherTasksUntouched ==
  [][/\ (Handled("PUT", 200) \/ Handled("PATCH", 200)) =>
          /\ DOMAIN tasks' = DOMAIN tasks
          /\ \A j \in DOMAIN tasks \ {last'.id} : tasks'[j] = tasks[j]
     /\ Handled("DELETE", 204) =>
          /\ DOMAIN tasks' = DOMAIN tasks \ {last'.id}
          /\ \A j \in DOMAIN tasks' : tasks'[j] = tasks[j]
     /\ Handled("POST", 201) =>
          /\ DOMAIN tasks' = DOMAIN tasks \cup {last'.body.data.id}
          /\ last'.body.data.id \notin DOMAIN tasks
          /\ \A j \in DOMAIN tasks : tasks'[j] = tasks[j]]_vars

\* C30 witness: a PATCH answered 200 a second after the creation of two
\* tasks, the other of which still has its first updated_at.
C30_Witness ==
  /\ Answered("PATCH", 200)
  /\ Cardinality(DOMAIN tasks) = 2
  /\ tasks[last.id].updated_at = now
  /\ \E j \in DOMAIN tasks \ {last.id} :
       tasks[j].updated_at < now /\ tasks[j].updated_at = tasks[j].created_at

====
